---- MODULE Spec2Model ----
(***************************************************************************)
(* Model of the storage-proof facade of sp-trie                            *)
(* (substrate/primitives/trie/src/storage_proof.rs) and of the session     *)
(* helpers of zombienet-sdk-helpers (cumulus/zombienet/.../src/lib.rs).    *)
(*                                                                         *)
(* Four specifications share the module's variables:                       *)
(*   SpecProof    StorageProof::new / new_with_duplicate_nodes_check /     *)
(*                merge on bounded lists of byte sequences                 *)
(*   SpecCompact  into_compact_proof / encoded_compact_size /              *)
(*                to_storage_proof / to_memory_db                          *)
(*   SpecSession  wait_for_nth_session_change over a block stream          *)
(*   SpecThroughput  assert_para_throughput over a block stream            *)
(***************************************************************************)
EXTENDS Integers, Sequences, FiniteSets, TLC

VARIABLES
    \* ---- StorageProof construction (SpecProof)
    ppc,        \* which constructor / operation has been applied
    nodes,      \* the input list handed to the constructor
    proofA,     \* first operand of merge
    proofB,     \* second operand of merge
    result,     \* the value the operation returned
    \* ---- compact proofs (SpecCompact)
    cpc,        \* "raw" | "compact" | "sized" | "decoded" | "db" | "recompacted"
    kind,       \* "trie": proof recorded from a trie; "any"; "wire": received
    raw_proof,  \* the StorageProof P
    trie_root,  \* the root R handed to the compaction
    compact,    \* what into_compact_proof returned
    size,       \* what encoded_compact_size returned
    expected,   \* the expected_root handed to the decompaction
    decoded,    \* what to_storage_proof returned
    memdb,      \* what to_memory_db returned
    recompact,  \* what into_compact_proof returned on the decoded proof
    \* ---- wait_for_nth_session_change (SpecSession)
    spc,                \* "loop" while inside the while-let, "done" after return
    sessions_to_wait,   \* the mut argument
    waited_block_num,   \* the local counter
    ret,                \* "none" | "Ok" | "Err(stream)" | "Err(waited)"
    wanted,             \* the value of sessions_to_wait at the call (N)
    consumed,           \* blocks taken from the stream so far
    seenSessions,       \* session-change blocks observed so far
    sinceSession,       \* consecutive blocks without NewSession observed
    lastWasSession,     \* the last block taken held a NewSession event
    \* ---- assert_para_throughput (SpecThroughput)
    tpc,                        \* "wait" at line 81, "count" in the while-let, "done"
    stop_after,                 \* the argument
    expected_candidate_ranges,  \* the argument: para id -> [start, end)
    candidate_count,            \* the local map: para id -> backed candidates
    current_block_count,        \* the local counter
    tret,                       \* "none" | "Ok" | "Err(..)"
    sessionSeen,                \* the wait returned at a session-change block
    taken,                      \* blocks taken from the stream by the while-let
    counted,                    \* of these, the blocks without NewSession
    backed,                     \* para id -> CandidateBacked events in counted blocks
    invalidSeen                 \* a counted block backed a para id that is no key

proofVars == <<ppc, nodes, proofA, proofB, result>>
sessVars  == <<spc, sessions_to_wait, waited_block_num, ret, wanted,
               consumed, seenSessions, sinceSession, lastWasSession>>
compactVars == <<cpc, kind, raw_proof, trie_root, compact, size, expected, decoded,
                 memdb, recompact>>
thruVars == <<tpc, stop_after, expected_candidate_ranges, candidate_count,
              current_block_count, tret, sessionSeen, taken, counted, backed,
              invalidSeen>>
vars == <<proofVars, compactVars, sessVars, thruVars>>

(***************************************************************************)
(* Bounds of the model.                                                    *)
(***************************************************************************)
MaxByte == 1        \* bytes of a node are drawn from 0..MaxByte
MaxLen == 3         \* longest input list of nodes
MaxSessions == 2    \* largest N handed to wait_for_nth_session_change
MaxBlocks == 52     \* longest block stream

Min(a, b) == IF a <= b THEN a ELSE b

(***************************************************************************)
(* Vec<u8> and its Ord: lexicographic on the bytes, a proper prefix first. *)
(***************************************************************************)
Bytes == 0..MaxByte

NodeUniverse == {<<>>} \cup [1..1 -> Bytes] \cup [1..2 -> Bytes]

LexLess(a, b) ==
    \E i \in 1..(Min(Len(a), Len(b)) + 1) :
        /\ \A j \in 1..(i - 1) : a[j] = b[j]
        /\ \/ i > Len(a) /\ i <= Len(b)
           \/ i <= Len(a) /\ i <= Len(b) /\ a[i] < b[i]

(***************************************************************************)
(* BTreeSet<Vec<u8>>: its elements in the order the tree keeps them, a     *)
(* strictly increasing sequence.                                           *)
(***************************************************************************)
BTreeSetNew == <<>>

BTreeContains(s, x) == \E i \in 1..Len(s) : s[i] = x

\* BTreeSet::insert without the equality test: a second copy is stored.
BTreeInsertNoDedup(s, x) ==
    LET k == Cardinality({i \in 1..Len(s) : LexLess(s[i], x)})
    IN  [set |-> SubSeq(s, 1, k) \o <<x>> \o SubSeq(s, k + 1, Len(s)),
         inserted |-> TRUE]

\* BTreeSet::insert that keeps the elements in the order of their arrival.
BTreeInsertAtEnd(s, x) ==
    IF BTreeContains(s, x)
    THEN [set |-> s, inserted |-> FALSE]
    ELSE [set |-> s \o <<x>>, inserted |-> TRUE]

\* BTreeSet::insert: the set with x, and whether x was newly inserted.
BTreeInsert(s, x) ==
    IF BTreeContains(s, x)
    THEN [set |-> s, inserted |-> FALSE]
    ELSE LET k == Cardinality({i \in 1..Len(s) : LexLess(s[i], x)})
         IN  [set |-> SubSeq(s, 1, k) \o <<x>> \o SubSeq(s, k + 1, Len(s)),
              inserted |-> TRUE]

RECURSIVE BTreeFromIter(_)
\* BTreeSet::from_iter / Iterator::collect::<BTreeSet<_>>()
BTreeFromIter(list) ==
    IF list = <<>> THEN BTreeSetNew
    ELSE BTreeInsert(BTreeFromIter(SubSeq(list, 1, Len(list) - 1)),
                     list[Len(list)]).set

(***************************************************************************)
(* StorageProof { trie_nodes: BTreeSet<Vec<u8>> }                          *)
(***************************************************************************)
new(trie_nodes) == [trie_nodes |-> BTreeFromIter(trie_nodes)]

empty == [trie_nodes |-> BTreeSetNew]

is_empty(self) == self.trie_nodes = <<>>

len(self) == Len(self.trie_nodes)

\* The sequence the iterator yields.
iter_nodes(self) == self.trie_nodes

into_iter_nodes(self) == self.trie_nodes

into_nodes(self) == self.trie_nodes

Ok(v) == [ok |-> TRUE, val |-> v, err |-> "none"]
Err(e) == [ok |-> FALSE, val |-> empty, err |-> e]

RECURSIVE CheckLoop(_, _, _)
\* The for loop of new_with_duplicate_nodes_check from position i on.
CheckLoop(trie_nodes, i, trie_nodes_set) ==
    IF i > Len(trie_nodes) THEN Ok([trie_nodes |-> trie_nodes_set])
    ELSE LET r == BTreeInsert(trie_nodes_set, trie_nodes[i])
         IN  IF ~r.inserted THEN Err("DuplicateNodes")
             ELSE CheckLoop(trie_nodes, i + 1, r.set)

\* The check comparing a node with the previous one only.
new_with_adjacent_check(trie_nodes) ==
    IF \E i \in 1..(Len(trie_nodes) - 1) : trie_nodes[i] = trie_nodes[i + 1]
    THEN Err("DuplicateNodes")
    ELSE Ok(new(trie_nodes))

new_with_duplicate_nodes_check(trie_nodes) == CheckLoop(trie_nodes, 1, BTreeSetNew)

RECURSIVE FlatMapNodes(_)
\* proofs.into_iter().flat_map(|proof| proof.into_iter_nodes())
FlatMapNodes(proofs) ==
    IF proofs = <<>> THEN <<>>
    ELSE into_iter_nodes(Head(proofs)) \o FlatMapNodes(Tail(proofs))

\* A merge that keeps the first proof only.
merge_first_only(proofs) ==
    IF proofs = <<>> THEN empty ELSE Head(proofs)

merge(proofs) ==
    [trie_nodes |-> BTreeFromIter(BTreeFromIter(FlatMapNodes(proofs)))]

(***************************************************************************)
(* Hasher and node codec (the Layout capability).  A node's encoding is a  *)
(* sequence of fields: a leaf is <<LEAF, value>>, a branch is              *)
(* <<BRANCH, slot, slot>>.  A slot is NO_CHILD, OMITTED_CHILD (compact form: the *)
(* child follows in the proof) or the child's digest d as d + HASH_BASE.   *)
(* A digest has a fixed width: the hasher folds the fields of its input    *)
(* below DIGEST_MOD before pairing them.  It is collision free on the      *)
(* nodes of tries of depth up to 2 and on the other byte sequences of the  *)
(* model, whose fields are all below DIGEST_MOD.                           *)
(***************************************************************************)
LEAF == 0
BRANCH == 1
NO_CHILD == 0
OMITTED_CHILD == 1
HASH_BASE == 2

DIGEST_MOD == 8192

Pair(a, b) ==
    LET x == a % DIGEST_MOD
        y == b % DIGEST_MOD
    IN  ((x + y) * (x + y + 1)) \div 2 + y

RECURSIVE FoldPair(_)
FoldPair(b) == IF b = <<>> THEN 0 ELSE Pair(b[1], FoldPair(Tail(b))) + 1

\* H::hash
Hasher(b) ==
    IF Len(b) = 2 /\ b[1] = LEAF THEN 4 * b[2]
    ELSE IF Len(b) = 3 /\ b[1] = BRANCH THEN 4 * Pair(b[2], b[3]) + 1
    ELSE IF Len(b) = 1 THEN 4 * (b[1] % DIGEST_MOD) + 2
    ELSE 4 * FoldPair(b) + 3

HashSlot(d) == d + HASH_BASE

IsHashSlot(s) == s >= HASH_BASE

SlotHash(s) == s - HASH_BASE

NoNode == [kind |-> "none", value |-> 0, slots |-> <<>>]

\* Layout::Codec::decode: the node, or a failure for bytes that are no node.
DecodeNode(b) ==
    IF Len(b) = 2 /\ b[1] = LEAF
    THEN [ok |-> TRUE, node |-> [kind |-> "leaf", value |-> b[2], slots |-> <<>>]]
    ELSE IF Len(b) = 3 /\ b[1] = BRANCH
    THEN [ok |-> TRUE,
          node |-> [kind |-> "branch", value |-> 0, slots |-> <<b[2], b[3]>>]]
    ELSE [ok |-> FALSE, node |-> NoNode]

\* Layout::Codec::leaf_node / branch_node
EncodeNode(n) ==
    IF n.kind = "leaf" THEN <<LEAF, n.value>>
    ELSE <<BRANCH, n.slots[1], n.slots[2]>>

(***************************************************************************)
(* MemoryDB<H>: digest -> (value, reference count).                        *)
(***************************************************************************)
MemoryDBNew == <<>>

\* HashDB::insert: the value under its digest, one more reference.  (The
\* store's null node, which insert does not store, is no node of the model.)
MemoryDBInsert(db, value) ==
    LET h == Hasher(value)
    IN  IF h \in DOMAIN db
        THEN [db EXCEPT ![h] = [value |-> @.value, rc |-> @.rc + 1]]
        ELSE [k \in DOMAIN db \cup {h} |->
                 IF k = h THEN [value |-> value, rc |-> 1] ELSE db[k]]

MemoryDBContains(db, h) == h \in DOMAIN db /\ db[h].rc > 0

\* MemoryDB::drain yields the (key, (value, rc)) entries in the hash map's
\* order, which is any order.
DrainOrders(db) ==
    {o \in [1..Cardinality(DOMAIN db) -> DOMAIN db] :
        \A i, j \in 1..Cardinality(DOMAIN db) : i # j => o[i] # o[j]}

RECURSIVE InsertAll(_, _, _)
\* proof.iter_nodes().for_each(|n| { db.insert(EMPTY_PREFIX, &n); })
InsertAll(db, seq, i) ==
    IF i > Len(seq) THEN db
    ELSE InsertAll(MemoryDBInsert(db, seq[i]), seq, i + 1)

\* From<&StorageProof> for MemoryDB<H> that skips the first node.
FromStorageProofSkipFirst(proof) == InsertAll(MemoryDBNew, iter_nodes(proof), 2)

\* impl From<&StorageProof> for MemoryDB<H>
FromStorageProof(proof) == InsertAll(MemoryDBNew, iter_nodes(proof), 1)

into_memory_db(self) == FromStorageProof(self)

(***************************************************************************)
(* Compaction engine (crate::encode_compact).  The trie is walked from the *)
(* root in pre-order; a child whose node is in the store is visited, its   *)
(* slot in the parent is emitted as OMITTED_CHILD and its own entries      *)
(* follow the parent's; a child that is not in the store keeps its digest. *)
(***************************************************************************)
NoCompact == [encoded_nodes |-> <<>>]

CompactOk(entries) == [ok |-> TRUE, val |-> [encoded_nodes |-> entries], err |-> "none"]

CompactErr(e) == [ok |-> FALSE, val |-> NoCompact, err |-> e]

RECURSIVE EncodeFrom(_, _)
\* The compact entries of the sub-trie under digest h, which is in the store.
EncodeFrom(db, h) ==
    LET d == DecodeNode(db[h].value)
    IN  IF ~d.ok THEN CompactErr("MalformedNode")
        ELSE IF d.node.kind = "leaf" THEN CompactOk(<<db[h].value>>)
        ELSE
          LET visited(i) == /\ IsHashSlot(d.node.slots[i])
                            /\ MemoryDBContains(db, SlotHash(d.node.slots[i]))
              child(i) == IF visited(i)
                          THEN EncodeFrom(db, SlotHash(d.node.slots[i]))
                          ELSE CompactOk(<<>>)
              slot(i) == IF visited(i) THEN OMITTED_CHILD ELSE d.node.slots[i]
              c1 == child(1)
              c2 == child(2)
          IN  IF ~c1.ok THEN c1
              ELSE IF ~c2.ok THEN c2
              ELSE CompactOk(<<EncodeNode([d.node EXCEPT !.slots = <<slot(1), slot(2)>>])>>
                             \o c1.val.encoded_nodes \o c2.val.encoded_nodes)

encode_compact(db, root) ==
    IF ~MemoryDBContains(db, root) THEN CompactErr("IncompleteProof")
    ELSE EncodeFrom(db, root)

(***************************************************************************)
(* Decompaction engine (crate::decode_compact).  The entries are taken in  *)
(* order; an entry with OMITTED_CHILD slots waits on a stack for the       *)
(* entries of its children; a node whose slots are all resolved is         *)
(* re-encoded, hashed and inserted with one reference, and its digest      *)
(* fills the first open slot of the node below it on the stack.  The last  *)
(* node completed is the root.                                             *)
(***************************************************************************)
None == [some |-> FALSE, hash |-> 0]

Some(h) == [some |-> TRUE, hash |-> h]

DecodeOk(db, root) == [ok |-> TRUE, db |-> db, root |-> root, err |-> "none"]

DecodeErr(e) == [ok |-> FALSE, db |-> MemoryDBNew, root |-> 0, err |-> e]

HasOpenSlot(n) == \E i \in 1..Len(n.slots) : n.slots[i] = OMITTED_CHILD

FirstOpenSlot(n) == CHOOSE i \in 1..Len(n.slots) :
                        /\ n.slots[i] = OMITTED_CHILD
                        /\ \A j \in 1..(i - 1) : n.slots[j] # OMITTED_CHILD

RECURSIVE Complete(_, _, _)
\* Completes the nodes on top of the stack that wait for no child.
Complete(stack, db, last) ==
    IF stack = <<>> \/ HasOpenSlot(stack[Len(stack)])
    THEN [stack |-> stack, db |-> db, last |-> last]
    ELSE LET top == stack[Len(stack)]
             bytes == EncodeNode(top)
             rest == SubSeq(stack, 1, Len(stack) - 1)
             filled == IF rest = <<>> THEN rest
                       ELSE [rest EXCEPT ![Len(rest)] =
                               [@ EXCEPT !.slots[FirstOpenSlot(@)] = HashSlot(Hasher(bytes))]]
         IN  Complete(filled, MemoryDBInsert(db, bytes), Hasher(bytes))

RECURSIVE DecodeEntries(_, _, _, _, _)
DecodeEntries(encoded, i, stack, db, last) ==
    IF i > Len(encoded)
    THEN IF stack = <<>> /\ Len(encoded) > 0 THEN DecodeOk(db, last)
         ELSE DecodeErr("IncompleteProof")
    ELSE LET d == DecodeNode(encoded[i])
         IN  IF ~d.ok THEN DecodeErr("MalformedNode")
             ELSE LET c == Complete(Append(stack, d.node), db, last)
                  IN  DecodeEntries(encoded, i + 1, c.stack, c.db, c.last)

decode_compact(db, encoded, expected_root) ==
    LET r == DecodeEntries(encoded, 1, <<>>, db, 0)
    IN  IF ~r.ok THEN r
        ELSE IF expected_root.some /\ expected_root.hash # r.root
        THEN DecodeErr("RootMismatch")
        ELSE r

(***************************************************************************)
(* The facade: StorageProof <-> CompactProof.                              *)
(***************************************************************************)
into_compact_proof(self, r) == encode_compact(into_memory_db(self), r)

to_compact_proof(self, r) == encode_compact(FromStorageProof(self), r)

\* parity-scale-codec: Compact<u32> of a length.
ScaleCompactLen(n) ==
    IF n < 64 THEN <<4 * n>>
    ELSE <<(4 * n + 1) % 256, (4 * n + 1) \div 256>>

RECURSIVE ScaleEncodeEntries(_)
ScaleEncodeEntries(entries) ==
    IF entries = <<>> THEN <<>>
    ELSE ScaleCompactLen(Len(Head(entries))) \o Head(entries)
         \o ScaleEncodeEntries(Tail(entries))

\* #[derive(Encode)] for CompactProof { encoded_nodes: Vec<Vec<u8>> }
ScaleEncode(p) ==
    ScaleCompactLen(Len(p.encoded_nodes)) \o ScaleEncodeEntries(p.encoded_nodes)

encoded_size(p) == Len(ScaleEncode(p))

\* encoded_compact_size with unwrap_or_default() in place of ok().map().
encoded_compact_size_or_default(self, r) ==
    LET compact_proof == into_compact_proof(self, r)
    IN  IF compact_proof.ok THEN Some(encoded_size(compact_proof.val)) ELSE Some(0)

encoded_compact_size(self, r) ==
    LET compact_proof == into_compact_proof(self, r)
    IN  IF compact_proof.ok THEN Some(encoded_size(compact_proof.val)) ELSE None

iter_compact_encoded_nodes(self) == self.encoded_nodes

ProofOk(p, r) == [ok |-> TRUE, proof |-> p, root |-> r, err |-> "none"]

ProofErr(e) == [ok |-> FALSE, proof |-> empty, root |-> 0, err |-> e]

RECURSIVE FilterMapDrainedAboveOne(_, _, _)
\* The filter with `> 1` in place of `> 0`.
FilterMapDrainedAboveOne(db, order, i) ==
    IF i > Len(order) THEN <<>>
    ELSE (IF db[order[i]].rc > 1 THEN <<db[order[i]].value>> ELSE <<>>)
         \o FilterMapDrainedAboveOne(db, order, i + 1)

RECURSIVE FilterMapDrained(_, _, _)
\* db.drain().into_iter().filter_map(|kv| if (kv.1).1 > 0 { Some((kv.1).0) } else { None })
FilterMapDrained(db, order, i) ==
    IF i > Len(order) THEN <<>>
    ELSE (IF db[order[i]].rc > 0 THEN <<db[order[i]].value>> ELSE <<>>)
         \o FilterMapDrained(db, order, i + 1)

\* to_storage_proof that does not hand expected_root to decode_compact.
to_storage_proof_unchecked(self, expected_root) ==
    LET r == decode_compact(MemoryDBNew, iter_compact_encoded_nodes(self), None)
    IN  IF ~r.ok THEN {ProofErr(r.err)}
        ELSE {ProofOk(new(FilterMapDrained(r.db, o, 1)), r.root) : o \in DrainOrders(r.db)}

\* to_storage_proof that drops the last entry drained.
to_storage_proof_drop_last(self, expected_root) ==
    LET r == decode_compact(MemoryDBNew, iter_compact_encoded_nodes(self), expected_root)
    IN  IF ~r.ok THEN {ProofErr(r.err)}
        ELSE {ProofOk(new(FilterMapDrained(r.db, SubSeq(o, 1, Len(o) - 1), 1)), r.root) :
                o \in DrainOrders(r.db)}

\* CompactProof::to_storage_proof: the results it can return, one for each
\* order in which the store can be drained.
to_storage_proof(self, expected_root) ==
    LET r == decode_compact(MemoryDBNew, iter_compact_encoded_nodes(self), expected_root)
    IN  IF ~r.ok THEN {ProofErr(r.err)}
        ELSE {ProofOk(new(FilterMapDrained(r.db, o, 1)), r.root) : o \in DrainOrders(r.db)}

\* to_memory_db with unwrap() in place of `?`.
to_memory_db_unwrap(self, expected_root) ==
    LET r == decode_compact(MemoryDBNew, iter_compact_encoded_nodes(self), expected_root)
    IN  IF ~r.ok THEN DecodeErr("panic") ELSE DecodeOk(r.db, r.root)

\* CompactProof::to_memory_db
to_memory_db(self, expected_root) ==
    LET r == decode_compact(MemoryDBNew, iter_compact_encoded_nodes(self), expected_root)
    IN  IF ~r.ok THEN DecodeErr(r.err) ELSE DecodeOk(r.db, r.root)

CompactIdle ==
    /\ cpc = "idle" /\ kind = "none" /\ raw_proof = empty /\ trie_root = 0
    /\ compact = CompactErr("none") /\ size = None /\ expected = None
    /\ decoded = ProofErr("none") /\ memdb = DecodeErr("none")
    /\ recompact = CompactErr("none")

(***************************************************************************)
(* SpecProof: the constructors and merge applied to a bounded input list.  *)
(***************************************************************************)
RECURSIVE ListsUpTo(_)
ListsUpTo(n) ==
    IF n = 0 THEN {<<>>}
    ELSE ListsUpTo(n - 1) \cup [1..n -> NodeUniverse]

NoResult == [op |-> "none", ok |-> TRUE, val |-> empty, err |-> "none"]

Returned(op, r) == [op |-> op, ok |-> r.ok, val |-> r.val, err |-> r.err]

SessIdle ==
    /\ spc = "idle" /\ sessions_to_wait = 0 /\ waited_block_num = 0
    /\ ret = "none" /\ wanted = 0 /\ consumed = 0 /\ seenSessions = 0
    /\ sinceSession = 0 /\ lastWasSession = FALSE

ThruIdle ==
    /\ tpc = "idle" /\ stop_after = 0 /\ expected_candidate_ranges = <<>>
    /\ candidate_count = <<>> /\ current_block_count = 0 /\ tret = "none"
    /\ sessionSeen = FALSE /\ taken = 0 /\ counted = 0 /\ backed = <<>>
    /\ invalidSeen = FALSE

ProofIdle ==
    /\ ppc = "idle" /\ nodes = <<>> /\ proofA = empty /\ proofB = empty
    /\ result = NoResult

InitProof ==
    /\ ppc = "start"
    /\ nodes \in ListsUpTo(MaxLen)
    /\ proofA = empty
    /\ proofB = empty
    /\ result = NoResult
    /\ CompactIdle
    /\ SessIdle
    /\ ThruIdle

CallNew ==
    /\ ppc = "start"
    /\ result' = Returned("new", Ok(new(nodes)))
    /\ ppc' = "new"
    /\ UNCHANGED <<nodes, proofA, proofB, compactVars, sessVars, thruVars>>

CallNewChecked ==
    /\ ppc = "start"
    /\ result' = Returned("checked", new_with_duplicate_nodes_check(nodes))
    /\ ppc' = "checked"
    /\ UNCHANGED <<nodes, proofA, proofB, compactVars, sessVars, thruVars>>

\* Two proofs are built from the two parts of the input list and merged.
CallMerge ==
    /\ ppc = "start"
    /\ \E k \in 0..Len(nodes) :
         LET a == new(SubSeq(nodes, 1, k))
             b == new(SubSeq(nodes, k + 1, Len(nodes)))
         IN  /\ proofA' = a
             /\ proofB' = b
             /\ result' = Returned("merge", Ok(merge(<<a, b>>)))
    /\ ppc' = "merged"
    /\ UNCHANGED <<nodes, compactVars, sessVars, thruVars>>

NextProof == CallNew \/ CallNewChecked \/ CallMerge

SpecProof == InitProof /\ [][NextProof]_vars

(***************************************************************************)
(* Claims about the constructors and merge (checked under SpecProof).      *)
(***************************************************************************)
Distinct(list) == {list[i] : i \in 1..Len(list)}

Yielded(seq) == {seq[i] : i \in 1..Len(seq)}

HasRepeat(list) == \E i, j \in 1..Len(list) : i < j /\ list[i] = list[j]

\* C1: StorageProof::new never fails and deduplicates silently: len() of the
\* proof is the number of distinct elements of the input list, and the
\* iterators yield exactly the distinct elements, each once.
ThmC1_NewDeduplicates ==
    ppc = "new" =>
        /\ result.ok
        /\ len(result.val) = Cardinality(Distinct(nodes))
        /\ Yielded(iter_nodes(result.val)) = Distinct(nodes)
        /\ Yielded(into_iter_nodes(result.val)) = Distinct(nodes)
        /\ Yielded(into_nodes(result.val)) = Distinct(nodes)
        /\ \A i, j \in 1..Len(iter_nodes(result.val)) :
             i # j => iter_nodes(result.val)[i] # iter_nodes(result.val)[j]

\* new has run on a list of three nodes that holds one node twice.
WitC1_NewOnDuplicates ==
    /\ ppc = "new"
    /\ Len(nodes) = 3
    /\ Cardinality(Distinct(nodes)) = 2
    /\ len(result.val) = 2

\* C2: new_with_duplicate_nodes_check returns Err(DuplicateNodes) exactly when
\* some node occurs more than once in the input, at any positions; otherwise
\* it returns Ok(p) with p = StorageProof::new of the same input.
ThmC2_DuplicateCheck ==
    ppc = "checked" =>
        /\ (~result.ok) <=> HasRepeat(nodes)
        /\ (~result.ok) => result.err = "DuplicateNodes"
        /\ result.ok => result.val = new(nodes)

\* The checked constructor has rejected a list whose only repeat is not
\* adjacent.
WitC2_NonAdjacentRepeat ==
    /\ ppc = "checked"
    /\ Len(nodes) = 3
    /\ nodes[1] = nodes[3]
    /\ nodes[1] # nodes[2]
    /\ ~result.ok
    /\ result.err = "DuplicateNodes"

\* C3: merge is commutative and idempotent on node content:
\* merge([A, B]) = merge([B, A]) and merge([A, A]) = A.
ThmC3_MergeCommutesIdempotent ==
    ppc = "merged" =>
        /\ result.val = merge(<<proofB, proofA>>)
        /\ merge(<<proofA, proofA>>) = proofA
        /\ merge(<<proofB, proofB>>) = proofB

\* Two different proofs that share a node have been merged.
WitC3_MergeOverlapping ==
    /\ ppc = "merged"
    /\ proofA # proofB
    /\ Yielded(proofA.trie_nodes) \cap Yielded(proofB.trie_nodes) # {}
    /\ len(result.val) < len(proofA) + len(proofB)
    /\ len(result.val) > len(proofA)

RECURSIVE LexBefore(_, _)
\* Lexicographic byte order: the first byte that differs decides, and a
\* proper prefix comes before its extensions.
LexBefore(a, b) ==
    IF b = <<>> THEN FALSE
    ELSE IF a = <<>> THEN TRUE
    ELSE IF Head(a) # Head(b) THEN Head(a) < Head(b)
    ELSE LexBefore(Tail(a), Tail(b))

StrictlyIncreasing(seq) == \A i \in 1..(Len(seq) - 1) : LexBefore(seq[i], seq[i + 1])

\* The rearrangements of a list.
Rearranged(list) ==
    {[i \in 1..Len(list) |-> list[p[i]]] : p \in Permutations(1..Len(list))}

\* C13: content and iteration order are independent of insertion order.
\* StorageProof::new gives the same proof for every permutation of its input
\* list; iter_nodes and into_iter_nodes yield the same sequence, which is
\* strictly increasing in lexicographic byte order (so no element is yielded
\* twice), for a proof built by new, by the checked constructor or by merge;
\* merge gives the same proof for either order of its arguments.
ThmC13_CanonicalOrder ==
    /\ ppc = "new" =>
         \A l \in Rearranged(nodes) : new(l) = result.val
    /\ (ppc \in {"new", "checked", "merged"} /\ result.ok) =>
         /\ StrictlyIncreasing(iter_nodes(result.val))
         /\ into_iter_nodes(result.val) = iter_nodes(result.val)
    /\ ppc = "merged" =>
         /\ merge(<<proofB, proofA>>) = result.val
         /\ result.val = new(nodes)

\* new was given three distinct nodes in decreasing order, one of them a
\* proper prefix of another, and yields them in another order.
WitC13_DecreasingInput ==
    /\ ppc = "new"
    /\ Len(nodes) = 3
    /\ LexBefore(nodes[3], nodes[2])
    /\ LexBefore(nodes[2], nodes[1])
    /\ \E i, j \in 1..3 :
         Len(nodes[i]) < Len(nodes[j]) /\ SubSeq(nodes[j], 1, Len(nodes[i])) = nodes[i]
    /\ iter_nodes(result.val) # nodes
    /\ len(result.val) = 3

(***************************************************************************)
(* SpecCompact: proofs recorded from tries of depth up to 2, arbitrary     *)
(* proofs and roots, and compact proofs as received from the wire.         *)
(***************************************************************************)
MaxValue == 2       \* leaf values are drawn from 1..MaxValue
MaxEntries == 3     \* longest compact proof received from the wire

Leaves == {<<LEAF, v>> : v \in 1..MaxValue}

ChildSlots(S) == {NO_CHILD} \cup {HashSlot(Hasher(n)) : n \in S}

BranchesOver(S) ==
    {<<BRANCH, a, b>> : a \in ChildSlots(S), b \in ChildSlots(S)}
        \ {<<BRANCH, NO_CHILD, NO_CHILD>>}

Level1 == BranchesOver(Leaves)

Level2 == BranchesOver(Leaves \cup Level1)

TrieNodes == Leaves \cup Level2

\* The backing store of the trie: the node with digest h.
NodeAt(h) == CHOOSE n \in Leaves \cup Level1 : Hasher(n) = h

Keys == [1..1 -> 1..2] \cup [1..2 -> 1..2]

RECURSIVE Lookup(_, _, _)
\* The nodes a lookup of key records, from node n and position i of the key.
Lookup(n, key, i) ==
    LET d == DecodeNode(n).node
    IN  <<n>> \o
        (IF d.kind = "branch" /\ i <= Len(key) /\ IsHashSlot(d.slots[key[i]])
         THEN Lookup(NodeAt(SlotHash(d.slots[key[i]])), key, i + 1)
         ELSE <<>>)

RECURSIVE RecordKeys(_, _)
\* The raw proof of a key set: the recorded nodes of every lookup, in turn.
RecordKeys(n, K) ==
    IF K = {} THEN <<>>
    ELSE LET k == CHOOSE k \in K : TRUE
         IN  Lookup(n, k, 1) \o RecordKeys(n, K \ {k})

GarbageNodes == {<<135>>, <<BRANCH, OMITTED_CHILD>>}

\* Roots a verifier may hold: of the one-leaf tries and of a one-branch trie.
KnownDigests ==
    {Hasher(n) : n \in Leaves}
        \cup {Hasher(<<BRANCH, HashSlot(Hasher(<<LEAF, 1>>)), NO_CHILD>>)}

WireEntries ==
    GarbageNodes \cup
    {<<LEAF, 1>>, <<BRANCH, OMITTED_CHILD, NO_CHILD>>,
     <<BRANCH, OMITTED_CHILD, OMITTED_CHILD>>,
     <<BRANCH, HashSlot(Hasher(<<LEAF, 1>>)), OMITTED_CHILD>>}

RECURSIVE WireProofs(_)
WireProofs(n) ==
    IF n = 0 THEN {} ELSE WireProofs(n - 1) \cup [1..n -> WireEntries]

Fresh ==
    /\ size = None /\ expected = None /\ decoded = ProofErr("none")
    /\ memdb = DecodeErr("none") /\ recompact = CompactErr("none")

\* A proof recorded by looking up a set of keys in a trie, with its root.
InitTrie ==
    /\ kind = "trie"
    /\ cpc = "raw"
    /\ \E n \in TrieNodes, K \in (SUBSET Keys) \ {{}} :
         /\ raw_proof = new(RecordKeys(n, K))
         /\ trie_root = Hasher(n)
    /\ compact = CompactErr("none")

\* Any proof and root: a recorded proof without its root node, with a node
\* that is no node, with a reachable node that is no node, or a wrong root.
InitAny ==
    /\ kind = "any"
    /\ cpc = "raw"
    /\ \E n \in Leaves \cup Level1, K \in (SUBSET Keys) \ {{}}, g \in GarbageNodes :
         LET rec == RecordKeys(n, K)
             bad == <<BRANCH, HashSlot(Hasher(g)), HashSlot(Hasher(n))>>
         IN  \/ /\ raw_proof \in {new(rec), new(Tail(rec)), new(<<g>> \o rec)}
                /\ trie_root \in {Hasher(n)} \cup {Hasher(l) : l \in Leaves}
             \/ /\ raw_proof = new(<<bad, g>> \o rec)
                /\ trie_root = Hasher(bad)
    /\ compact = CompactErr("none")

\* A compact proof decoded from untrusted input.
InitWire ==
    /\ kind = "wire"
    /\ cpc = "compact"
    /\ raw_proof = empty
    /\ trie_root = 0
    /\ \E c \in WireProofs(MaxEntries) : compact = CompactOk(c)

InitCompact ==
    /\ InitTrie \/ InitAny \/ InitWire
    /\ Fresh
    /\ ProofIdle
    /\ SessIdle
    /\ ThruIdle

CallIntoCompactProof ==
    /\ cpc = "raw"
    /\ compact' = into_compact_proof(raw_proof, trie_root)
    /\ cpc' = "compact"
    /\ UNCHANGED <<kind, raw_proof, trie_root, size, expected, decoded, memdb,
                   recompact, proofVars, sessVars, thruVars>>

CallEncodedCompactSize ==
    /\ cpc = "raw"
    /\ size' = encoded_compact_size(raw_proof, trie_root)
    /\ cpc' = "sized"
    /\ UNCHANGED <<kind, raw_proof, trie_root, compact, expected, decoded, memdb,
                   recompact, proofVars, sessVars, thruVars>>

ExpectedRoots == {None} \cup {Some(h) : h \in {trie_root} \cup KnownDigests}

CallToStorageProof ==
    /\ cpc = "compact"
    /\ compact.ok
    /\ \E e \in ExpectedRoots :
         /\ expected' = e
         /\ decoded' \in to_storage_proof(compact.val, e)
    /\ cpc' = "decoded"
    /\ UNCHANGED <<kind, raw_proof, trie_root, compact, size, memdb, recompact,
                   proofVars, sessVars, thruVars>>

CallToMemoryDb ==
    /\ cpc = "compact"
    /\ compact.ok
    /\ \E e \in ExpectedRoots :
         /\ expected' = e
         /\ memdb' = to_memory_db(compact.val, e)
    /\ cpc' = "db"
    /\ UNCHANGED <<kind, raw_proof, trie_root, compact, size, decoded, recompact,
                   proofVars, sessVars, thruVars>>

\* The decoded proof is compacted again, with the root that came with it.
CallRecompact ==
    /\ cpc = "decoded"
    /\ decoded.ok
    /\ recompact' = into_compact_proof(decoded.proof, decoded.root)
    /\ cpc' = "recompacted"
    /\ UNCHANGED <<kind, raw_proof, trie_root, compact, size, expected, decoded,
                   memdb, proofVars, sessVars, thruVars>>

NextCompact ==
    \/ CallIntoCompactProof
    \/ CallEncodedCompactSize
    \/ CallToStorageProof
    \/ CallToMemoryDb
    \/ CallRecompact

SpecCompact == InitCompact /\ [][NextCompact]_vars

(***************************************************************************)
(* Claims about compact proofs (checked under SpecCompact).                *)
(***************************************************************************)
Entries(c) == c.val.encoded_nodes

HasSlot(c, v) ==
    \E i \in 1..Len(Entries(c)) :
        /\ Len(Entries(c)[i]) = 3
        /\ \E j \in 2..3 : IF v = HASH_BASE THEN IsHashSlot(Entries(c)[i][j])
                                            ELSE Entries(c)[i][j] = v

\* C4: compact round trip.  For a proof P recorded from a trie with root R,
\* into_compact_proof(R) succeeds, and to_storage_proof(Some(&R)) on the
\* result succeeds and returns (P', R') with R' = R and the node set of P'
\* equal to the node set of P.
ThmC4_CompactRoundTrip ==
    kind = "trie" =>
        /\ cpc \in {"compact", "decoded", "db", "recompacted"} => compact.ok
        /\ (cpc = "decoded" /\ expected = Some(trie_root)) =>
             /\ decoded.ok
             /\ decoded.root = trie_root
             /\ Yielded(iter_nodes(decoded.proof)) = Yielded(iter_nodes(raw_proof))

\* A partial proof of four nodes or more went through the round trip: its
\* compact form has a child left out and a child kept as a digest.
WitC4_PartialProofRoundTrip ==
    /\ kind = "trie"
    /\ cpc = "decoded"
    /\ expected = Some(trie_root)
    /\ decoded.ok
    /\ len(raw_proof) >= 4
    /\ HasSlot(compact, OMITTED_CHILD)
    /\ HasSlot(compact, HASH_BASE)

\* The root computed from a compact proof: what to_memory_db(None) returns.
Computed == to_memory_db(compact.val, None)

\* C5: root verification on decompaction.  If to_storage_proof(Some(&E)) or
\* to_memory_db(Some(&E)) returns Ok((_, r)) then r = E; when the computed
\* root differs from E the call returns the root-mismatch error and neither
\* a proof nor a node store; with None the computed root is returned.
ThmC5_RootVerified ==
    /\ cpc = "decoded" =>
         /\ (decoded.ok /\ expected.some) => decoded.root = expected.hash
         /\ (Computed.ok /\ expected.some /\ Computed.root # expected.hash) =>
              (~decoded.ok /\ decoded.err = "RootMismatch" /\ decoded.proof = empty)
         /\ (Computed.ok /\ ~expected.some) =>
              (decoded.ok /\ decoded.root = Computed.root)
    /\ cpc = "db" =>
         /\ (memdb.ok /\ expected.some) => memdb.root = expected.hash
         /\ (Computed.ok /\ expected.some /\ Computed.root # expected.hash) =>
              (~memdb.ok /\ memdb.err = "RootMismatch" /\ memdb.db = MemoryDBNew)
         /\ (Computed.ok /\ ~expected.some) =>
              (memdb.ok /\ memdb.root = Computed.root)

\* A received compact proof that decodes was checked against another root.
WitC5_RootMismatch ==
    /\ kind = "wire"
    /\ cpc = "decoded"
    /\ expected.some
    /\ Computed.ok
    /\ Computed.root # expected.hash
    /\ decoded.err = "RootMismatch"

CompactProofErrors == {"MalformedNode", "IncompleteProof", "RootMismatch"}

HasUndecodableEntry(c) ==
    \E i \in 1..Len(Entries(c)) : ~DecodeNode(Entries(c)[i]).ok

\* C6: decoding a malformed compact proof never panics.  For a compact proof
\* with an entry that is no node, to_memory_db(None) and
\* to_storage_proof(None) return an Err value; no compact proof makes either
\* call end in a panic.
ThmC6_MalformedIsError ==
    /\ (cpc = "db" /\ ~expected.some /\ HasUndecodableEntry(compact)) =>
         (~memdb.ok /\ memdb.err \in CompactProofErrors)
    /\ (cpc = "decoded" /\ ~expected.some /\ HasUndecodableEntry(compact)) =>
         (~decoded.ok /\ decoded.err \in CompactProofErrors)
    /\ memdb.err # "panic"
    /\ decoded.err # "panic"

\* The proof with the single entry [135] was handed to to_memory_db(None).
WitC6_GarbageEntry ==
    /\ cpc = "db"
    /\ ~expected.some
    /\ Entries(compact) = <<<<135>>>>
    /\ ~memdb.ok
    /\ memdb.err = "MalformedNode"

\* C7: encoded_compact_size(R) is None exactly when into_compact_proof(R)
\* returns an error, and otherwise Some(n) with n the encoded byte length of
\* the compact proof into_compact_proof(R) produces.
ThmC7_SizeOfCompactProof ==
    cpc = "sized" =>
        LET c == into_compact_proof(raw_proof, trie_root)
        IN  /\ (~size.some) <=> (~c.ok)
            /\ c.ok => size = Some(Len(ScaleEncode(c.val)))

\* The size was asked for a root that no node of the proof hashes to.
WitC7_RootNotInProof ==
    /\ cpc = "sized"
    /\ ~is_empty(raw_proof)
    /\ \A i \in 1..len(raw_proof) : Hasher(raw_proof.trie_nodes[i]) # trie_root
    /\ ~size.some

\* C8: re-compaction is idempotent.  For a proof P recorded from a trie with
\* root R, C = P.into_compact_proof(R) and (P', R) =
\* C.to_storage_proof(Some(&R)): P'.into_compact_proof(R) succeeds and equals
\* C, the same entries in the same order.
ThmC8_RecompactionIdempotent ==
    (kind = "trie" /\ cpc = "recompacted" /\ expected = Some(trie_root)) =>
        /\ recompact.ok
        /\ recompact.val = compact.val

\* A decoded proof of a trie of depth 2 was compacted again.
WitC8_Recompacted ==
    /\ kind = "trie"
    /\ cpc = "recompacted"
    /\ expected = Some(trie_root)
    /\ Len(Entries(compact)) >= 4
    /\ recompact.ok

\* The node store that to_memory_db returns for the proof and the expected
\* root that to_storage_proof was called with.
StoreOfDecoded == to_memory_db(compact.val, expected)

\* The values the store holds with a positive reference count.
PositiveValues(db) == {db[h].value : h \in {k \in DOMAIN db : db[k].rc > 0}}

WAIT_MAX_BLOCKS_FOR_SESSION == 50

InitSession ==
    /\ spc = "loop"
    /\ wanted \in 1..MaxSessions
    /\ sessions_to_wait = wanted
    /\ waited_block_num = 0
    /\ ret = "none"
    /\ consumed = 0
    /\ seenSessions = 0
    /\ sinceSession = 0
    /\ lastWasSession = FALSE
    /\ ProofIdle
    /\ CompactIdle
    /\ ThruIdle

\* blocks_sub.next() yields None: the while-let ends and Ok(()) is returned.
StreamEnd ==
    /\ spc = "loop"
    /\ spc' = "done"
    /\ ret' = "Ok"
    /\ UNCHANGED <<sessions_to_wait, waited_block_num, wanted, consumed,
                   seenSessions, sinceSession, lastWasSession, proofVars, compactVars, thruVars>>

\* The stream item is an Err, or block.events() fails: `?` returns that error.
BlockError ==
    /\ spc = "loop"
    /\ consumed < MaxBlocks
    /\ consumed' = consumed + 1
    /\ spc' = "done"
    /\ ret' = "Err(stream)"
    /\ UNCHANGED <<sessions_to_wait, waited_block_num, wanted,
                   seenSessions, sinceSession, lastWasSession, proofVars, compactVars, thruVars>>

\* The session branch without `waited_block_num = 0`.
SessionBlockNoReset ==
    /\ spc = "loop"
    /\ consumed < MaxBlocks
    /\ consumed' = consumed + 1
    /\ seenSessions' = seenSessions + 1
    /\ sinceSession' = 0
    /\ lastWasSession' = TRUE
    /\ sessions_to_wait' = sessions_to_wait - 1
    /\ IF sessions_to_wait' = 0
       THEN spc' = "done" /\ ret' = "Ok"
       ELSE spc' = "loop" /\ ret' = ret
    /\ UNCHANGED <<waited_block_num, wanted, proofVars, compactVars, thruVars>>

\* A block with a Session::NewSession event.  sessions_to_wait is a u32 that
\* is at least 1 whenever the loop runs (the call is made with N >= 1 and
\* returns when it reaches 0), so the decrement never wraps.
SessionBlock ==
    /\ spc = "loop"
    /\ sessions_to_wait >= 1
    /\ consumed < MaxBlocks
    /\ consumed' = consumed + 1
    /\ seenSessions' = seenSessions + 1
    /\ sinceSession' = 0
    /\ lastWasSession' = TRUE
    /\ sessions_to_wait' = sessions_to_wait - 1
    /\ IF sessions_to_wait' = 0
       THEN spc' = "done" /\ ret' = "Ok" /\ waited_block_num' = waited_block_num
       ELSE spc' = "loop" /\ ret' = ret /\ waited_block_num' = 0
    /\ UNCHANGED <<wanted, proofVars, compactVars, thruVars>>

\* A block without a NewSession event.
PlainBlock ==
    /\ spc = "loop"
    /\ consumed < MaxBlocks
    /\ consumed' = consumed + 1
    /\ sinceSession' = sinceSession + 1
    /\ lastWasSession' = FALSE
    /\ IF waited_block_num >= WAIT_MAX_BLOCKS_FOR_SESSION
       THEN spc' = "done" /\ ret' = "Err(waited)" /\ waited_block_num' = waited_block_num
       ELSE spc' = "loop" /\ ret' = ret /\ waited_block_num' = waited_block_num + 1
    /\ UNCHANGED <<sessions_to_wait, wanted, seenSessions, proofVars, compactVars, thruVars>>

NextSession == StreamEnd \/ BlockError \/ SessionBlock \/ PlainBlock

SpecSession == InitSession /\ [][NextSession]_vars

(***************************************************************************)
(* Claims about wait_for_nth_session_change (checked under SpecSession).   *)
(***************************************************************************)
\* C9: wait_for_nth_session_change(blocks, N), N >= 1, returns Ok(()) only at
\* the block that holds the Nth session change: never before N session-change
\* blocks have been observed, also when the stream ends early.
CexC9_OkOnlyAtNthSession ==
    (spc = "done" /\ ret = "Ok") =>
        (seenSessions = wanted /\ lastWasSession)

\* C10 as stated: once 50 consecutive blocks without a NewSession event have
\* been observed, the call has returned an error instead of waiting on.
CexC10_ErrorOnceFiftyObserved ==
    sinceSession >= WAIT_MAX_BLOCKS_FOR_SESSION =>
        (spc = "done" /\ ret = "Err(waited)")

\* C10 (amended): the call tolerates 50 consecutive blocks without a
\* NewSession event and returns the error when a 51st such block is observed;
\* waited_block_num is the number of such blocks since the start of the call
\* or since the previous session change, never exceeds 50, and is 0 again
\* after every session change that does not end the call.
ThmC10_ErrorAtFiftyFirstBlock ==
    /\ waited_block_num <= WAIT_MAX_BLOCKS_FOR_SESSION
    /\ spc = "loop" => waited_block_num = sinceSession
    /\ (spc = "loop" /\ lastWasSession) => waited_block_num = 0
    /\ ret = "Err(waited)" <=> sinceSession = WAIT_MAX_BLOCKS_FOR_SESSION + 1
    /\ ret = "Err(waited)" =>
         (spc = "done" /\ waited_block_num = WAIT_MAX_BLOCKS_FOR_SESSION)

\* After a session change, 51 blocks without one were observed and the call
\* returned the error.
WitC10_TimedOutAfterRestart ==
    /\ spc = "done"
    /\ ret = "Err(waited)"
    /\ seenSessions = 1
    /\ sinceSession = WAIT_MAX_BLOCKS_FOR_SESSION + 1
    /\ waited_block_num = WAIT_MAX_BLOCKS_FOR_SESSION

(***************************************************************************)
(* SpecThroughput: assert_para_throughput.  The call first waits for the   *)
(* first session change (the actions of wait_for_nth_session_change with   *)
(* N = 1), then takes one block of the stream per step of its while-let.   *)
(***************************************************************************)
MaxPara == 2        \* para ids are drawn from 1..MaxPara
MaxStop == 2        \* largest stop_after
MaxBacked == 2      \* most CandidateBacked events in one block
MaxTaken == 3       \* most blocks taken by the while-let
MaxEnd == 3         \* largest end of an expected range

ParaIds == 1..MaxPara

\* Range<u32>: start..end, half open.
RangeSet == {[start |-> a, end |-> b] : a \in 0..1, b \in 2..MaxEnd}

\* Range::contains
RangeContains(range, x) == range.start <= x /\ x < range.end

\* HashMap<ParaId, Range<u32>>: the arguments drawn.
RangeMaps == UNION {[K -> RangeSet] : K \in SUBSET ParaIds}

RECURSIVE ReceiptsUpTo(_)
\* The para ids of the CandidateBacked events of one block, in block order.
ReceiptsUpTo(n) ==
    IF n = 0 THEN {<<>>}
    ELSE ReceiptsUpTo(n - 1) \cup [1..n -> ParaIds]

\* *(candidate_count.entry(para_id).or_default()) += 1
EntryOrDefaultIncrement(cc, para_id) ==
    IF para_id \in DOMAIN cc
    THEN [cc EXCEPT ![para_id] = @ + 1]
    ELSE [q \in DOMAIN cc \cup {para_id} |-> IF q = para_id THEN 1 ELSE cc[q]]

RECURSIVE ForReceipts(_, _, _, _)
\* for receipt in receipts { .. }: the map after the loop, or the early return
\* at the first para id that is not in valid_para_ids.
ForReceipts(cc, receipts, i, valid_para_ids) ==
    IF i > Len(receipts) THEN [ok |-> TRUE, cc |-> cc]
    ELSE IF receipts[i] \notin valid_para_ids THEN [ok |-> FALSE, cc |-> cc]
    ELSE ForReceipts(EntryOrDefaultIncrement(cc, receipts[i]), receipts, i + 1,
                     valid_para_ids)

\* for (para_id, expected_candidate_range) in expected_candidate_ranges { .. }
\* Ok(()): what the call can return after the while-let, one error for each
\* para id that the map's iteration can reach first among the failing ones.
FinalCheck(cc, ranges) ==
    LET failing == {p \in DOMAIN ranges :
                        \/ p \notin DOMAIN cc
                        \/ ~RangeContains(ranges[p], cc[p])}
    IN  IF failing = {} THEN {"Ok"}
        ELSE {IF p \in DOMAIN cc THEN "Err(range)" ELSE "Err(missing)" : p \in failing}

InitThroughput ==
    /\ tpc = "wait"
    /\ stop_after \in 0..MaxStop
    /\ expected_candidate_ranges \in RangeMaps
    /\ candidate_count = <<>>
    /\ current_block_count = 0
    /\ tret = "none"
    /\ sessionSeen = FALSE
    /\ taken = 0
    /\ counted = 0
    /\ backed = [p \in ParaIds |-> 0]
    /\ invalidSeen = FALSE
    \* wait_for_first_session_change: wait_for_nth_session_change(blocks_sub, 1)
    /\ spc = "loop"
    /\ wanted = 1
    /\ sessions_to_wait = 1
    /\ waited_block_num = 0
    /\ ret = "none"
    /\ consumed = 0
    /\ seenSessions = 0
    /\ sinceSession = 0
    /\ lastWasSession = FALSE
    /\ ProofIdle
    /\ CompactIdle

\* wait_for_first_session_change(&mut blocks_sub).await?  The wait has
\* returned: an error is returned as it is, Ok(()) enters the while-let.  The
\* frame of the wait is dropped.
WaitReturned ==
    /\ tpc = "wait"
    /\ spc = "done"
    /\ IF ret = "Ok"
       THEN tpc' = "count" /\ tret' = tret /\ sessionSeen' = (seenSessions >= 1)
       ELSE tpc' = "done" /\ tret' = ret /\ sessionSeen' = sessionSeen
    /\ spc' = "idle"
    /\ sessions_to_wait' = 0
    /\ waited_block_num' = 0
    /\ ret' = "none"
    /\ wanted' = 0
    /\ consumed' = 0
    /\ seenSessions' = 0
    /\ sinceSession' = 0
    /\ lastWasSession' = FALSE
    /\ UNCHANGED <<stop_after, expected_candidate_ranges, candidate_count,
                   current_block_count, taken, counted, backed, invalidSeen,
                   proofVars, compactVars>>

\* blocks_sub.next() yields None: the while-let ends and the ranges are
\* checked against the counts collected so far.  A stream that ended during
\* the wait (the wait returned Ok(()) without a session change) yields None
\* again, so the other steps of the while-let need sessionSeen.
ThroughputStreamEnd ==
    /\ tpc = "count"
    /\ tpc' = "done"
    /\ tret' \in FinalCheck(candidate_count, expected_candidate_ranges)
    /\ UNCHANGED <<stop_after, expected_candidate_ranges, candidate_count,
                   current_block_count, sessionSeen, taken, counted, backed,
                   invalidSeen, proofVars, compactVars, sessVars>>

\* The stream item is an Err, or block.events() fails: `?` returns that error.
ThroughputBlockError ==
    /\ tpc = "count"
    /\ sessionSeen
    /\ taken < MaxTaken
    /\ taken' = taken + 1
    /\ tpc' = "done"
    /\ tret' = "Err(stream)"
    /\ UNCHANGED <<stop_after, expected_candidate_ranges, candidate_count,
                   current_block_count, sessionSeen, counted, backed,
                   invalidSeen, proofVars, compactVars, sessVars>>

\* A block with a Session::NewSession event: `continue`, whatever else the
\* block holds.
ThroughputSessionBlock ==
    /\ tpc = "count"
    /\ sessionSeen
    /\ taken < MaxTaken
    /\ \E receipts \in ReceiptsUpTo(MaxBacked) :
         /\ taken' = taken + 1
         /\ UNCHANGED <<tpc, stop_after, expected_candidate_ranges, candidate_count,
                        current_block_count, tret, sessionSeen, counted, backed,
                        invalidSeen, proofVars, compactVars, sessVars>>

\* A block without NewSession whose events do not decode:
\* find_event_and_decode_fields returns Err after the block was counted.
ThroughputDecodeError ==
    /\ tpc = "count"
    /\ sessionSeen
    /\ taken < MaxTaken
    /\ taken' = taken + 1
    /\ counted' = counted + 1
    /\ current_block_count' = current_block_count + 1
    /\ tpc' = "done"
    /\ tret' = "Err(decode)"
    /\ UNCHANGED <<stop_after, expected_candidate_ranges, candidate_count,
                   sessionSeen, backed, invalidSeen, proofVars, compactVars,
                   sessVars>>

\* A block without NewSession: it is counted, its receipts are added to the
\* map, and at stop_after counted blocks the loop breaks and the ranges are
\* checked.
ThroughputPlainBlock ==
    /\ tpc = "count"
    /\ sessionSeen
    /\ taken < MaxTaken
    /\ \E receipts \in ReceiptsUpTo(MaxBacked) :
         LET valid_para_ids == DOMAIN expected_candidate_ranges
             r == ForReceipts(candidate_count, receipts, 1, valid_para_ids)
         IN  /\ taken' = taken + 1
             /\ counted' = counted + 1
             /\ backed' = [p \in ParaIds |->
                             backed[p] + Cardinality({i \in 1..Len(receipts) :
                                                         receipts[i] = p})]
             /\ invalidSeen' = \E i \in 1..Len(receipts) :
                                   receipts[i] \notin valid_para_ids
             /\ current_block_count' = current_block_count + 1
             /\ candidate_count' = r.cc
             /\ IF ~r.ok
                THEN tpc' = "done" /\ tret' = "Err(invalid)"
                ELSE IF current_block_count' = stop_after
                THEN /\ tpc' = "done"
                     /\ tret' \in FinalCheck(r.cc, expected_candidate_ranges)
                ELSE tpc' = "count" /\ tret' = tret
    /\ UNCHANGED <<stop_after, expected_candidate_ranges, sessionSeen,
                   proofVars, compactVars, sessVars>>

NextThroughput ==
    \/ StreamEnd \/ BlockError \/ SessionBlock \/ PlainBlock
    \/ WaitReturned
    \/ ThroughputStreamEnd \/ ThroughputBlockError \/ ThroughputSessionBlock
    \/ ThroughputDecodeError \/ ThroughputPlainBlock

SpecThroughput == InitThroughput /\ [][NextThroughput]_vars

(***************************************************************************)
(* Claims about assert_para_throughput (checked under SpecThroughput).     *)
(***************************************************************************)
InExpectedRanges ==
    \A p \in DOMAIN expected_candidate_ranges :
        RangeContains(expected_candidate_ranges[p], backed[p])

\* C12 as stated: throughput is measured over the blocks without NewSession
\* that follow the first session change.  Blocks with NewSession are not
\* counted and their candidates are ignored; counting stops after exactly
\* stop_after counted blocks; a candidate backed for a para id that is no key
\* of expected_candidate_ranges makes the call return an error at once; and
\* Ok(()) is returned only if, over stop_after counted blocks after a session
\* change, every expected para id has its backed-candidate count in range.
CexC12_ThroughputOverStopAfterBlocks ==
    /\ current_block_count = counted
    /\ \A p \in DOMAIN candidate_count : candidate_count[p] <= backed[p]
    /\ tpc = "count" => counted < stop_after
    /\ invalidSeen => (tpc = "done" /\ tret = "Err(invalid)")
    /\ tret = "Ok" =>
         /\ sessionSeen
         /\ counted = stop_after
         /\ InExpectedRanges

====
